---------------------------- MODULE Spec2Model ----------------------------
(***************************************************************************)
(* A model of two parts of dynarmic:                                       *)
(*   - the A64 decode table and decoder (src/frontend/A64/decoder/a64.h):  *)
(*     GetDecodeTable builds the ordered table of matchers, Decode scans   *)
(*     it for the first matcher of an instruction word;                    *)
(*   - the memory service (src/common/memory_util.cpp): allocation of      *)
(*     executable, raw and aligned memory and the page protection calls.   *)
(*                                                                         *)
(* Instruction words are WordBits wide (u32 in the source).  A bitstring   *)
(* is a sequence of WordBits symbols, most significant bit first.          *)
(***************************************************************************)
EXTENDS Integers, Sequences, FiniteSets, TLC

\* ----------------------------------------------------------------- bounds
\* Width of an instruction word in the model (32 in the source).
WordBits == 1
\* Longest instruction description list (a64.inc) the model declares.
MaxInsts == 3
\* Number of threads that call Decode concurrently.
NumThreads == 2
\* Most live mappings, and most hint-path allocations, of a run.
MaxAllocs == 2
\* Most live mappings in the specification of the protection calls.
MaxProtected == 1

\* ------------------------------------------------------------- bit helpers
RECURSIVE Pow2Rec(_)
Pow2Rec(n) == IF n = 0 THEN 1 ELSE 2 * Pow2Rec(n - 1)

\* 2^n for the bit positions of a word.
Pow2 == [n \in 0 .. WordBits |-> Pow2Rec(n)]

Words == 0 .. (Pow2[WordBits] - 1)

\* Bit i (0 = least significant) of x.
BitAt(x, i) == (x \div Pow2[i]) % 2

RECURSIVE BitAndFrom(_, _, _)
BitAndFrom(a, b, i) ==
    IF i = WordBits THEN 0
    ELSE BitAt(a, i) * BitAt(b, i) * Pow2[i] + BitAndFrom(a, b, i + 1)

\* a & b on WordBits-wide words.
BitAnd == [a \in Words, b \in Words |-> BitAndFrom(a, b, 0)]

RECURSIVE BitCountRec(_)
BitCountRec(x) == IF x = 0 THEN 0 ELSE (x % 2) + BitCountRec(x \div 2)

\* Common::BitCount: the number of set bits.
BitCount == [x \in Words |-> BitCountRec(x)]

\* ------------------------------------------------- instruction descriptions
Symbols == {"0", "1", "-"}
Bitstrings == [1 .. WordBits -> Symbols]

\* The two names of comes_first, and a name outside it.
comes_first == {"MOVI, MVNI, ORR, BIC (vector, immediate)",
                "FMOV (vector, immediate)"}
Names == {"FMOV (vector, immediate)", "NOP"}

\* One INST(fn, name, bitstring) line of a64.inc.
Descriptions == [name : Names, bitstring : Bitstrings]

RECURSIVE SeqsUpTo(_, _)
SeqsUpTo(S, n) ==
    IF n = 0 THEN {<<>>}
    ELSE LET shorter == SeqsUpTo(S, n - 1)
         IN  shorter \cup {Append(s, x) : s \in {t \in shorter : Len(t) = n - 1}, x \in S}

\* The instruction description lists the model declares.
DeclaredLists == SeqsUpTo(Descriptions, MaxInsts)

\* Decoder::detail::GetMaskAndExpect: '0' and '1' are fixed bits, '1' is
\* expected set, anything else is a don't-care.
RECURSIVE MaskFrom(_, _)
MaskFrom(bs, i) ==
    IF i > WordBits THEN 0
    ELSE (IF bs[i] \in {"0", "1"} THEN Pow2[WordBits - i] ELSE 0) + MaskFrom(bs, i + 1)

RECURSIVE ExpectedFrom(_, _)
ExpectedFrom(bs, i) ==
    IF i > WordBits THEN 0
    ELSE (IF bs[i] = "1" THEN Pow2[WordBits - i] ELSE 0) + ExpectedFrom(bs, i + 1)

\* Decoder::detail::GetMatcher(&Visitor::fn, name, bitstring).  decl is the
\* position of the INST line in a64.inc; it stands for the handler fn.
GetMatcher(decl, d) ==
    [decl     |-> decl,
     name     |-> d.name,
     mask     |-> MaskFrom(d.bitstring, 1),
     expected |-> ExpectedFrom(d.bitstring, 1)]

\* Matcher::Matches.
Matches(m, instruction) == BitAnd[instruction, m.mask] = m.expected

\* ------------------------------------------------------------ GetDecodeTable
\* The initializer list of a64.h:28-32: one matcher per INST line, in order.
InitialTable(decls) == [i \in 1 .. Len(decls) |-> GetMatcher(i, decls[i])]

SortCompFewerFirst(matcher1, matcher2) ==
    BitCount[matcher1.mask] < BitCount[matcher2.mask]

\* The comparison of the stable_sort: more mask bits come first.
SortComp(matcher1, matcher2) ==
    BitCount[matcher1.mask] > BitCount[matcher2.mask]

\* An insertion that puts x before the elements it is equivalent to.
RECURSIVE InsertBeforeEqual(_, _)
InsertBeforeEqual(s, x) ==
    IF s = <<>> THEN <<x>>
    ELSE IF ~SortComp(Head(s), x) THEN <<x>> \o s
    ELSE <<Head(s)>> \o InsertBeforeEqual(Tail(s), x)

\* std::stable_sort as a stable insertion: x goes before the first element it
\* must precede, after every element it is equivalent to.
RECURSIVE InsertSorted(_, _)
InsertSorted(s, x) ==
    IF s = <<>> THEN <<x>>
    ELSE IF SortComp(x, Head(s)) THEN <<x>> \o s
    ELSE <<Head(s)>> \o InsertSorted(Tail(s), x)

RECURSIVE StableSort(_)
StableSort(s) ==
    IF s = <<>> THEN <<>>
    ELSE InsertSorted(StableSort(SubSeq(s, 1, Len(s) - 1)), s[Len(s)])

PartitionPredNever(matcher) == FALSE

\* The predicate of the stable_partition.
PartitionPred(matcher) == matcher.name \in comes_first

\* std::stable_partition: the elements satisfying the predicate, then the
\* others, each group in its previous order.
StablePartition(s) ==
    SelectSeq(s, PartitionPred) \o SelectSeq(s, LAMBDA m : ~PartitionPred(m))

GetDecodeTable(decls) == StablePartition(StableSort(InitialTable(decls)))

\* -------------------------------------------------------------------- Decode
RECURSIVE FindIfLast(_, _, _)
FindIfLast(t, instruction, i) ==
    IF i > Len(t) THEN 0
    ELSE LET later == FindIfLast(t, instruction, i + 1)
         IN  IF later # 0 THEN later
             ELSE IF Matches(t[i], instruction) THEN i ELSE 0

\* std::find_if from position i: the first position whose matcher matches,
\* 0 for table.end().
RECURSIVE FindIf(_, _, _)
FindIf(t, instruction, i) ==
    IF i > Len(t) THEN 0
    ELSE IF Matches(t[i], instruction) THEN i
    ELSE FindIf(t, instruction, i + 1)

\* boost::optional<const Matcher&>: <<>> is boost::none, <<m>> holds m.
none == <<>>

\* A scan that starts one element too late.
DecodeResultFromSecond(t, instruction) ==
    LET iter == FindIf(t, instruction, 2)
    IN  IF iter # 0 THEN <<t[iter]>> ELSE none

\* The scan and the return statement of Decode, a64.h:56-59.
DecodeResult(t, instruction) ==
    LET iter == FindIf(t, instruction, 1)
    IN  IF iter # 0 THEN <<t[iter]>> ELSE none

\* --------------------------------------------------------------------- state
\* The model follows one instantiation Decode<Visitor>: each instantiation of
\* the template has its own function-local static and shares nothing with
\* the others.
VARIABLES
    declared,     \* the INST lines of a64.inc, in declaration order
    table,        \* the function-local static `table` of Decode (a64.h:54)
    guard,        \* initialization state of that static: "uninit", "building", "done"
    builds,       \* how many times GetDecodeTable has been entered
    instruction,  \* argument of the latest completed Decode call, NoCall before any
    result,       \* what that call returned
    pc,           \* per thread: where it is inside Decode, "idle" outside
    arg,          \* per thread: the instruction word of its running call
    iter,         \* per thread: the position of its find_if scan
    local,        \* per thread: the vector GetDecodeTable is returning to it
    build,        \* memory_util.cpp: the macros the file is compiled under
    map_hint,     \* the static map_hint of AllocateExecutableMemory
    regions,      \* the live mappings: base, length in whole pages, protection, who set it
    allocs,       \* hint path: the successful mmap calls of AllocateExecutableMemory, in order
    last,         \* the call that returned last, when an allocation: what the OS gave, what is returned
    fatal         \* message of the assertion that ended the process, "" if none

decoderVars == <<declared, table, guard, builds, instruction, result>>
threadVars == <<pc, arg, iter, local>>
memVars == <<build, map_hint, regions, allocs, last, fatal>>
vars == <<decoderVars, threadVars, memVars>>

Threads == 1 .. NumThreads

\* A value that is no instruction word.
NoCall == Pow2[WordBits]

nullptr == 0
NoAllocation == [op |-> "none", low |-> FALSE, osok |-> TRUE, ptr |-> nullptr, ret |-> nullptr]

\* The memory service before any call, under a build that plays no part.
MemoryUnused ==
    /\ build = [win32 |-> FALSE, x64 |-> FALSE, map_32bit |-> FALSE,
                android |-> FALSE, emu_arch_bits_64 |-> FALSE]
    /\ map_hint = nullptr
    /\ regions = {}
    /\ allocs = <<>>
    /\ last = NoAllocation
    /\ fatal = ""

\* The decoder before any call, with an empty description list.
DecoderUnused ==
    /\ declared = <<>>
    /\ table = <<>>
    /\ guard = "uninit"
    /\ builds = 0
    /\ instruction = NoCall
    /\ result = none
    /\ pc = [t \in Threads |-> "idle"]
    /\ arg = [t \in Threads |-> NoCall]
    /\ iter = [t \in Threads |-> 0]
    /\ local = [t \in Threads |-> <<>>]


\* ------------------------------------------------- sequential specification
\* A single thread calls Decode on arbitrary words, for every declared list.
Init ==
    /\ declared \in DeclaredLists
    /\ table = <<>>
    /\ guard = "uninit"
    /\ builds = 0
    /\ instruction = NoCall
    /\ result = none
    /\ pc = [t \in Threads |-> "idle"]
    /\ arg = [t \in Threads |-> NoCall]
    /\ iter = [t \in Threads |-> 0]
    /\ local = [t \in Threads |-> <<>>]
    /\ MemoryUnused

\* Decode(w), a64.h:52-60, run to completion by one thread: the first call
\* initializes the static table with GetDecodeTable, every call scans it.
DecodeCall(w) ==
    /\ guard \in {"uninit", "done"}
    /\ table' = IF guard = "uninit" THEN GetDecodeTable(declared) ELSE table
    /\ builds' = IF guard = "uninit" THEN builds + 1 ELSE builds
    /\ guard' = "done"
    /\ instruction' = w
    /\ result' = DecodeResult(table', w)
    /\ UNCHANGED <<declared, threadVars, memVars>>

Next == \E w \in Words : DecodeCall(w)

Spec == Init /\ [][Next]_vars

\* ------------------------------------------------- concurrent specification
\* NumThreads threads call Decode; a call is split at the points where it
\* reads or writes the shared static: the guarded initialization of line 54
\* and each step of the scan of line 58.

\* d completed with don't-care bits to the width of a word.
Pad(prefix) ==
    [i \in 1 .. WordBits |-> IF i <= Len(prefix) THEN prefix[i] ELSE "-"]

\* The description lists of the concurrent specification: a general pattern
\* before a narrower one, and a narrower one before an override entry.
ThreadDeclaredLists ==
    {<<[name |-> "NOP", bitstring |-> Pad(<<>>)],
       [name |-> "NOP", bitstring |-> Pad(<<"1">>)]>>,
     <<[name |-> "NOP", bitstring |-> Pad(<<"0">>)],
       [name |-> "FMOV (vector, immediate)", bitstring |-> Pad(<<>>)]>>}

\* The words threads decode: all bits clear, all bits set.
ThreadWords == {0, Pow2[WordBits] - 1}

ThreadInit ==
    /\ declared \in ThreadDeclaredLists
    /\ table = <<>>
    /\ guard = "uninit"
    /\ builds = 0
    /\ instruction = NoCall
    /\ result = none
    /\ pc = [t \in Threads |-> "idle"]
    /\ arg = [t \in Threads |-> NoCall]
    /\ iter = [t \in Threads |-> 0]
    /\ local = [t \in Threads |-> <<>>]
    /\ MemoryUnused

\* Thread t enters Decode(w).
Call(t, w) ==
    /\ pc[t] = "idle"
    /\ pc' = [pc EXCEPT ![t] = "static_init"]
    /\ arg' = [arg EXCEPT ![t] = w]
    /\ UNCHANGED <<decoderVars, iter, local, memVars>>

\* A static whose initialization is entered whenever it has not completed.
MayInitializeUnguarded(g) == g # "done"

\* Whether a thread reaching the declaration of the static (a64.h:54) runs its
\* initializer: only when no thread has started it.  A thread that finds the
\* initialization running waits for its completion (a function-local static
\* of C++11 and later).
MayInitialize(g) == g = "uninit"

\* Thread t reaches line 54 first and starts the initialization.
BeginInit(t) ==
    /\ pc[t] = "static_init"
    /\ MayInitialize(guard)
    /\ guard' = "building"
    /\ pc' = [pc EXCEPT ![t] = "build"]
    /\ UNCHANGED <<declared, table, builds, instruction, result, arg, iter, local, memVars>>

\* Thread t runs GetDecodeTable (a64.h:26-50) on its own vector.
Build(t) ==
    /\ pc[t] = "build"
    /\ builds' = builds + 1
    /\ local' = [local EXCEPT ![t] = GetDecodeTable(declared)]
    /\ pc' = [pc EXCEPT ![t] = "publish"]
    /\ UNCHANGED <<declared, table, guard, instruction, result, arg, iter, memVars>>

\* The returned vector becomes the static and the initialization completes.
Publish(t) ==
    /\ pc[t] = "publish"
    /\ table' = local[t]
    /\ guard' = "done"
    /\ local' = [local EXCEPT ![t] = <<>>]
    /\ pc' = [pc EXCEPT ![t] = "scan"]
    /\ iter' = [iter EXCEPT ![t] = 1]
    /\ UNCHANGED <<declared, builds, instruction, result, arg, memVars>>

\* Thread t reaches line 54 after the initialization completed.
SkipInit(t) ==
    /\ pc[t] = "static_init"
    /\ ~MayInitialize(guard)
    /\ guard # "building"
    /\ pc' = [pc EXCEPT ![t] = "scan"]
    /\ iter' = [iter EXCEPT ![t] = 1]
    /\ UNCHANGED <<decoderVars, arg, local, memVars>>

\* One step of std::find_if (a64.h:58): the element at iter does not match.
ScanNext(t) ==
    /\ pc[t] = "scan"
    /\ iter[t] <= Len(table)
    /\ ~Matches(table[iter[t]], arg[t])
    /\ iter' = [iter EXCEPT ![t] = iter[t] + 1]
    /\ UNCHANGED <<decoderVars, pc, arg, local, memVars>>

\* The scan ends, at a match or at table.end(), and Decode returns (a64.h:59).
Return(t) ==
    /\ pc[t] = "scan"
    /\ IF iter[t] > Len(table) THEN TRUE ELSE Matches(table[iter[t]], arg[t])
    /\ instruction' = arg[t]
    /\ result' = IF iter[t] > Len(table) THEN none ELSE <<table[iter[t]]>>
    /\ pc' = [pc EXCEPT ![t] = "idle"]
    /\ arg' = [arg EXCEPT ![t] = NoCall]
    /\ iter' = [iter EXCEPT ![t] = 0]
    /\ UNCHANGED <<declared, table, guard, builds, local, memVars>>

ThreadNext ==
    \E t \in Threads :
        \/ \E w \in ThreadWords : Call(t, w)
        \/ BeginInit(t)
        \/ Build(t)
        \/ Publish(t)
        \/ SkipInit(t)
        \/ ScanNext(t)
        \/ Return(t)

ThreadSpec == ThreadInit /\ [][ThreadNext]_vars

\* ------------------------------------------------------------ memory service
\* memory_util.cpp.  Addresses and sizes are counted in KiB; nullptr is 0.

\* The macros the file is compiled under.  Under _WIN32 the other platform
\* macros are not consulted, so one value of each stands for all.
\* emu_arch_bits_64 is EMU_ARCH_BITS == 64 as the preprocessor evaluates it
\* (false also when the macro is not defined).
Builds ==
    {b \in [win32 : BOOLEAN, x64 : BOOLEAN, map_32bit : BOOLEAN,
            android : BOOLEAN, emu_arch_bits_64 : BOOLEAN] :
        b.win32 => (b.x64 /\ ~b.map_32bit /\ ~b.android)}

\* !defined(_WIN32) && defined(ARCHITECTURE_X64) && !defined(MAP_32BIT)
HintPath(b) == ~b.win32 /\ b.x64 /\ ~b.map_32bit

\* getpagesize(), in KiB.
PageSize == 4
PAGE_MASK == PageSize - 1

\* round_page(x): ((x + PAGE_MASK) & ~PAGE_MASK), the page size a power of two.
round_page(x) == (x + PAGE_MASK) - ((x + PAGE_MASK) % PageSize)

\* 512*1024*1024 bytes, and 0x80000000 bytes.
HalfGiB == 512 * 1024
TwoGiB == 2 * 1024 * 1024

MAP_FAILED == 0 - 1

\* What the operating system may answer.  Besides the hinted address it has
\* a range of free pages low in the address space, from LowOther, and one
\* above 2 GiB, from HighOther, and gives the first free address of either; a
\* mapping occupies whole pages and never overlaps a live one; a request of
\* size 0 fails.
LowOther == 256 * PageSize
HighOther == 2 * TwoGiB
HeapAddr == 3 * TwoGiB

Free(a, size) ==
    \A r \in regions :
        \/ a + round_page(size) <= r.base
        \/ r.base + r.size <= a

\* The first free address of the range of pages that starts at from.  A
\* mapping of the model fits one page, so one of the first
\* Cardinality(regions) + 1 pages of the range is free.
FirstFree(from, size) ==
    LET at(k) == from + k * PageSize
        first == CHOOSE k \in 0 .. Cardinality(regions) :
                     /\ Free(at(k), size)
                     /\ \A j \in 0 .. (k - 1) : ~Free(at(j), size)
    IN  at(first)

Placements(hint, size, below2g) ==
    {a \in (IF hint = nullptr THEN {} ELSE {hint})
            \cup {FirstFree(LowOther, size), FirstFree(HighOther, size)} :
        /\ size > 0
        /\ Free(a, size)
        /\ below2g => a + round_page(size) <= TwoGiB}

\* mmap(hint, size, ..., MAP_ANON | MAP_PRIVATE [| MAP_32BIT], -1, 0)
mmap(hint, size, map32) == {MAP_FAILED} \cup Placements(hint, size, map32)

\* VirtualAlloc(nullptr, size, MEM_COMMIT, ...)
VirtualAlloc(size) == {nullptr} \cup Placements(nullptr, size, FALSE)

\* The inputs of the calls.
Sizes == {0, 1, PageSize}
Alignments == {PageSize, PageSize - 1}

\* Lines 64-65: the first low request sets the hint.
HintBefore(hint, low) ==
    IF HintPath(build) /\ low /\ hint = nullptr THEN round_page(HalfGiB) ELSE hint

\* A hint that is not moved after an allocation.
HintAfterStays(hint, size, low) == hint

\* Lines 85-94: after a successful mmap on the hint path.
HintAfter(hint, size, low) ==
    IF low THEN round_page(hint + size) ELSE hint

\* A build in which the check of lines 96-99 is never made.
Above2GBUnchecked(ptr, low) == FALSE

\* Lines 96-99: whether the second assertion is reached.
Above2GB(ptr, low) ==
    build.emu_arch_bits_64 /\ ptr >= TwoGiB /\ low = TRUE

\* ASSERT_MSG(false, message): the process ends with the message.
ASSERT_MSG(message) == fatal' = message

\* AllocateExecutableMemory(size, low), lines 51-102.
AllocateExecutableMemory(size, low) ==
    /\ fatal = ""
    /\ LET hint == IF build.win32 THEN map_hint ELSE HintBefore(map_hint, low)
           map32 == ~build.win32 /\ build.x64 /\ build.map_32bit /\ low
       IN  \E got \in (IF build.win32 THEN VirtualAlloc(size)
                                      ELSE mmap(hint, size, map32)) :
             LET failed == IF build.win32 THEN got = nullptr ELSE got = MAP_FAILED
                 ptr == IF failed THEN nullptr ELSE got
             IN  /\ map_hint' = IF ~failed /\ HintPath(build)
                                THEN HintAfter(hint, size, low) ELSE hint
                 /\ regions' = IF failed THEN regions
                               ELSE regions \cup
                                    {[base |-> ptr, size |-> round_page(size),
                                      prot |-> {"R", "W", "X"},
                                      by |-> <<"AllocateExecutableMemory", TRUE>>]}
                 /\ allocs' = IF failed \/ ~HintPath(build) THEN allocs
                              ELSE Append(allocs, [hint |-> hint, size |-> size,
                                                   low |-> low])
                 /\ last' = [op |-> "AllocateExecutableMemory", low |-> low,
                             osok |-> ~failed, ptr |-> ptr, ret |-> ptr]
                 /\ IF failed
                    THEN ASSERT_MSG("Failed to allocate executable memory")
                    ELSE IF Above2GB(ptr, low)
                    THEN ASSERT_MSG("Executable memory ended up above 2GB!")
                    ELSE fatal' = ""
    /\ UNCHANGED <<build, decoderVars, threadVars>>

\* A null check that never fires.
PagesUnchecked(ptr) == FALSE

\* Line 116: whether the assertion of AllocateMemoryPages is reached.
PagesFailed(ptr) == ptr = nullptr

\* AllocateMemoryPages(size), lines 104-120.
AllocateMemoryPages(size) ==
    /\ fatal = ""
    /\ \E got \in (IF build.win32 THEN VirtualAlloc(size)
                                  ELSE mmap(nullptr, size, FALSE)) :
          LET ptr == IF ~build.win32 /\ got = MAP_FAILED THEN nullptr ELSE got
          IN  /\ regions' = IF ptr = nullptr THEN regions
                            ELSE regions \cup
                                 {[base |-> ptr, size |-> round_page(size),
                                   prot |-> {"R", "W"},
                                   by |-> <<"AllocateMemoryPages", FALSE>>]}
              /\ last' = [op |-> "AllocateMemoryPages", low |-> FALSE,
                          osok |-> ptr # nullptr, ptr |-> ptr, ret |-> ptr]
              /\ IF PagesFailed(ptr)
                 THEN ASSERT_MSG("Failed to allocate raw memory")
                 ELSE fatal' = ""
    /\ UNCHANGED <<build, map_hint, allocs, decoderVars, threadVars>>

\* What the aligned allocators may answer: <<status, pointer>>.  A failure
\* leaves the pointer null; an alignment that is no power of two fails in
\* _aligned_malloc and posix_memalign, while memalign (ANDROID) may serve it;
\* posix_memalign may succeed with a null pointer for size 0.
AlignedResults(size, alignment) ==
    {<<FALSE, nullptr>>}
    \cup (IF alignment = PageSize \/ build.android THEN {<<TRUE, HeapAddr>>} ELSE {})
    \cup (IF alignment = PageSize /\ size = 0 /\ ~build.win32 /\ ~build.android
          THEN {<<TRUE, nullptr>>} ELSE {})

\* AllocateAlignedMemory(size, alignment), lines 122-140.
AllocateAlignedMemory(size, alignment) ==
    /\ fatal = ""
    /\ \E got \in AlignedResults(size, alignment) :
          LET ptr == got[2]
          IN  /\ last' = [op |-> "AllocateAlignedMemory", low |-> FALSE,
                          osok |-> got[1], ptr |-> ptr, ret |-> ptr]
              /\ IF ~build.win32 /\ ~build.android /\ ~got[1]
                 THEN ASSERT_MSG("Failed to allocate aligned memory")
                 ELSE IF ptr = nullptr
                 THEN ASSERT_MSG("Failed to allocate aligned memory")
                 ELSE fatal' = ""
    /\ UNCHANGED <<build, map_hint, regions, allocs, decoderVars, threadVars>>

\* FreeMemoryPages(ptr, size), lines 142-153: a null pointer is left alone;
\* VirtualFree / munmap releases the mapping at ptr (ok) or fails.  A failure
\* is an assertion under _WIN32 and is ignored elsewhere.
FreeMemoryPages(ptr, size) ==
    /\ fatal = ""
    /\ IF ptr = nullptr
       THEN regions' = regions /\ fatal' = ""
       ELSE \E ok \in BOOLEAN :
               /\ regions' = IF ok THEN {r \in regions : r.base # ptr} ELSE regions
               /\ IF ~ok /\ build.win32
                  THEN ASSERT_MSG("FreeMemoryPages failed!")
                  ELSE fatal' = ""
    /\ last' = NoAllocation
    /\ UNCHANGED <<build, map_hint, allocs, decoderVars, threadVars>>

\* A protection that leaves the pages writable.
WriteProtectionKeepsWrite(allowExecute) ==
    IF allowExecute THEN {"R", "W", "X"} ELSE {"R", "W"}

\* Lines 171, 174: PAGE_EXECUTE_READ / PAGE_READONLY, PROT_READ [| PROT_EXEC].
WriteProtection(allowExecute) ==
    IF allowExecute THEN {"R", "X"} ELSE {"R"}

\* Lines 182, 185: PAGE_EXECUTE_READWRITE / PAGE_READWRITE,
\* PROT_READ | PROT_WRITE [| PROT_EXEC].
UnWriteProtection(allowExecute) ==
    IF allowExecute THEN {"R", "W", "X"} ELSE {"R", "W"}

\* VirtualProtect / mprotect on region r takes effect (ok) or fails.  A
\* failure is an assertion under _WIN32 and is ignored elsewhere.
SetProtection(r, prot, op, allowExecute, ok) ==
    /\ regions' = IF ok THEN (regions \ {r}) \cup
                             {[r EXCEPT !.prot = prot, !.by = <<op, allowExecute>>]}
                  ELSE regions
    /\ IF ~ok /\ build.win32 THEN ASSERT_MSG(op \o " failed!") ELSE fatal' = ""

\* WriteProtectMemory(ptr, size, allowExecute), lines 167-176, on a mapping.
WriteProtectMemory(r, allowExecute) ==
    /\ fatal = ""
    /\ r \in regions
    /\ \E ok \in BOOLEAN :
          SetProtection(r, WriteProtection(allowExecute),
                        "WriteProtectMemory", allowExecute, ok)
    /\ last' = NoAllocation
    /\ UNCHANGED <<build, map_hint, allocs, decoderVars, threadVars>>

\* UnWriteProtectMemory(ptr, size, allowExecute), lines 178-187, on a mapping.
UnWriteProtectMemory(r, allowExecute) ==
    /\ fatal = ""
    /\ r \in regions
    /\ \E ok \in BOOLEAN :
          SetProtection(r, UnWriteProtection(allowExecute),
                        "UnWriteProtectMemory", allowExecute, ok)
    /\ last' = NoAllocation
    /\ UNCHANGED <<build, map_hint, allocs, decoderVars, threadVars>>

\* The memory service before any call, under any build.
MemInit ==
    /\ build \in Builds
    /\ map_hint = nullptr
    /\ regions = {}
    /\ allocs = <<>>
    /\ last = NoAllocation
    /\ fatal = ""
    /\ DecoderUnused

\* The allocation calls and FreeMemoryPages, in any order, up to MaxAllocs
\* live mappings and MaxAllocs successful mmap calls of
\* AllocateExecutableMemory.
MemNext ==
    \/ \E size \in Sizes :
          \/ /\ Cardinality(regions) < MaxAllocs
             /\ Len(allocs) < MaxAllocs
             /\ \E low \in BOOLEAN : AllocateExecutableMemory(size, low)
          \/ /\ Cardinality(regions) < MaxAllocs
             /\ AllocateMemoryPages(size)
          \/ \E alignment \in Alignments : AllocateAlignedMemory(size, alignment)
    \/ \E r \in regions : FreeMemoryPages(r.base, r.size)
    \/ FreeMemoryPages(nullptr, 0)

MemSpec == MemInit /\ [][MemNext]_vars

\* Executable allocations, the protection calls on their mappings and
\* FreeMemoryPages, up to MaxProtected live mappings and MaxAllocs successful
\* mmap calls of AllocateExecutableMemory.
ProtNext ==
    \/ /\ Cardinality(regions) < MaxProtected
       /\ Len(allocs) < MaxAllocs
       /\ \E size \in Sizes, low \in BOOLEAN : AllocateExecutableMemory(size, low)
    \/ \E r \in regions : FreeMemoryPages(r.base, r.size)
    \/ \E r \in regions, allowExecute \in BOOLEAN : WriteProtectMemory(r, allowExecute)
    \/ \E r \in regions, allowExecute \in BOOLEAN : UnWriteProtectMemory(r, allowExecute)

ProtSpec == MemInit /\ [][ProtNext]_vars

\* ------------------------------------------------------ claims on the decoder
\* The record of the i-th INST line.
Own(i) == GetMatcher(i, declared[i])

\* Where the record of the i-th INST line stands in sequence t.
PosOf(t, i) == CHOOSE p \in 1 .. Len(t) : t[p].decl = i

InOverride(m) == m.name \in comes_first

\* Positions of the table whose record matches the decoded word.
MatchingPositions == {p \in 1 .. Len(table) : Matches(table[p], instruction)}

\* C1: Decode(w) returns the record at the smallest table index whose record
\* matches w, and boost::none exactly when no record of the table matches w.
C1_FirstMatch ==
    instruction # NoCall =>
        LET matching == MatchingPositions
        IN  /\ (result = none) <=> (matching = {})
            /\ matching # {} =>
                  \E p \in matching :
                      /\ \A q \in matching : p <= q
                      /\ result = <<table[p]>>

\* C1 witness: two different records match the word and the earlier is returned.
C1_Witness ==
    /\ instruction # NoCall
    /\ \E p, q \in MatchingPositions :
          p < q /\ table[p].mask # table[q].mask /\ result = <<table[p]>>

\* C3: in the built table every record named in comes_first precedes every
\* record that is not, and inside each of the two groups the records keep the
\* relative order the stable_sort gave them.
C3_OverrideFirst ==
    guard = "done" =>
        LET sorted == StableSort(InitialTable(declared))
            inSorted == [i \in 1 .. Len(declared) |-> PosOf(sorted, i)]
        IN  /\ Len(table) = Len(declared)
            /\ \A p, q \in 1 .. Len(table) :
                  /\ (InOverride(table[p]) /\ ~InOverride(table[q])) => p < q
                  /\ (InOverride(table[p]) = InOverride(table[q]))
                        => ((p < q) <=> (inSorted[table[p].decl] < inSorted[table[q].decl]))

\* C3 witness: an override record with fewer fixed bits than every other
\* record, declared last, stands first in the built table.
C3_Witness ==
    /\ guard = "done"
    /\ Len(table) >= 2
    /\ InOverride(table[1])
    /\ table[1].decl = Len(declared)
    /\ \A p \in 2 .. Len(table) :
          /\ ~InOverride(table[p])
          /\ BitCount[table[p].mask] > BitCount[table[1].mask]

\* C4: the built table is a permutation of the declared records, and two
\* records a, b of the same group (both in comes_first or both outside) stand
\* a before b iff a has more mask bits than b, or as many and a is declared
\* before b.
C4_SpecificityOrder ==
    guard = "done" =>
        /\ Len(table) = Len(declared)
        /\ \A i \in 1 .. Len(declared) :
              LET own == Own(i)
              IN  \E p \in 1 .. Len(table) :
                      /\ table[p] = own
                      /\ \A q \in 1 .. Len(table) : table[q].decl = i => q = p
        /\ \A p, q \in 1 .. Len(table) :
              (p # q /\ InOverride(table[p]) = InOverride(table[q])) =>
                  ((p < q) <=>
                      \/ BitCount[table[p].mask] > BitCount[table[q].mask]
                      \/ /\ BitCount[table[p].mask] = BitCount[table[q].mask]
                         /\ table[p].decl < table[q].decl)

\* C4 witness: of two records of one group, the one declared later has more
\* mask bits and stands first in the built table.
C4_Witness ==
    /\ guard = "done"
    /\ \E p, q \in 1 .. Len(table) :
          /\ p < q
          /\ InOverride(table[p]) = InOverride(table[q])
          /\ table[p].decl > table[q].decl
          /\ BitCount[table[p].mask] > BitCount[table[q].mask]

\* INST lines whose record matches the decoded word.
MatchingDecls == {i \in 1 .. Len(declared) : Matches(Own(i), instruction)}

\* C6: when no record matching w is in the override set, Decode(w) returns the
\* matching record with the most fixed bits, the first declared among those
\* with that count.
C6_MostSpecific ==
    instruction # NoCall =>
        LET own == InitialTable(declared)
            matching == {i \in 1 .. Len(declared) : Matches(own[i], instruction)}
        IN  (matching # {} /\ \A i \in matching : ~InOverride(own[i])) =>
                \E b \in matching :
                    /\ result = <<own[b]>>
                    /\ \A c \in matching :
                          \/ BitCount[own[b].mask] > BitCount[own[c].mask]
                          \/ /\ BitCount[own[b].mask] = BitCount[own[c].mask]
                             /\ b <= c

\* C6 witness: A is declared before B, B fixes A's bits and more, no override
\* record matches, the word matches both and B is returned.
C6_Witness ==
    /\ instruction # NoCall
    /\ \A i \in MatchingDecls : ~InOverride(Own(i))
    /\ \E a, b \in MatchingDecls :
          /\ a < b
          /\ BitAnd[Own(a).mask, Own(b).mask] = Own(a).mask
          /\ BitCount[Own(a).mask] < BitCount[Own(b).mask]
          /\ result = <<Own(b)>>

\* C5 as claimed: decoding the expected bits of any declared description with
\* a fixed bit returns that description's own record.
C5_Original ==
    instruction # NoCall =>
        \A i \in 1 .. Len(declared) :
            (Own(i).mask # 0 /\ instruction = Own(i).expected)
                => result = <<Own(i)>>

\* C5 amended: decoding the expected bits of a declared description d with a
\* fixed bit returns a non-empty result; d's own record matches that word; the
\* result is d's own record exactly when no record standing before it in the
\* table matches the word, and otherwise it is such an earlier record.
C5_NoFalseMiss ==
    instruction # NoCall =>
        \A i \in 1 .. Len(declared) :
            LET own == Own(i)
            IN  (own.mask # 0 /\ instruction = own.expected) =>
                    LET at == PosOf(table, i)
                        earlier == {p \in 1 .. at - 1 : Matches(table[p], instruction)}
                    IN  /\ result # none
                        /\ Matches(own, instruction)
                        /\ (result = <<own>>) <=> (earlier = {})
                        /\ earlier # {} => \E p \in earlier : result = <<table[p]>>

\* C5 witness: the expected bits of a description with a fixed bit decode to
\* the record of another description, an override entry that fixes fewer bits.
C5_Witness ==
    /\ instruction # NoCall
    /\ \E i, j \in 1 .. Len(declared) :
          /\ Own(i).mask # 0
          /\ instruction = Own(i).expected
          /\ result = <<Own(j)>>
          /\ InOverride(Own(j)) /\ ~InOverride(Own(i))
          /\ BitCount[Own(j).mask] < BitCount[Own(i).mask]

\* ------------------------------------------------- claims on the static table
\* No thread is scanning anything but the completed table, and GetDecodeTable
\* has run at most once.
C2_State ==
    /\ builds <= 1
    /\ \A t \in Threads :
          pc[t] = "scan" =>
              /\ guard = "done"
              /\ builds = 1
              /\ table = GetDecodeTable(declared)

\* Once published, the table is never modified or rebuilt.
C2_Step ==
    guard = "done" => (table' = table /\ guard' = "done" /\ builds' = builds)

\* C2: under any interleaving of threads calling Decode, GetDecodeTable runs
\* at most once, every scan runs on the one completed table, and after the
\* table is published no call modifies or rebuilds it.
C2_BuiltOnce == [](C2_State) /\ [][C2_Step]_vars

\* C2 witness: a thread is about to publish the table it built while another
\* thread, which called Decode before the table existed, waits at line 54.
C2_Witness ==
    \E t, u \in Threads :
        /\ t # u
        /\ guard = "building"
        /\ pc[t] = "publish"
        /\ pc[u] = "static_init"

\* ----------------------------------------------- claims on the memory service
\* C7 as claimed: no mapping is ever writable and executable at the same time.
C7_Original ==
    \A r \in regions : ~({"W", "X"} \subseteq r.prot)

\* C7 amended: a mapping is writable and executable at once after
\* AllocateExecutableMemory and after an effective UnWriteProtectMemory with
\* allowExecute, and only then.  After an effective WriteProtectMemory it is
\* readable, not writable, and executable iff allowExecute; after an effective
\* UnWriteProtectMemory it is readable, writable, and executable iff
\* allowExecute.
C7_Protections ==
    \A r \in regions :
        /\ r.by[1] = "AllocateExecutableMemory" => r.prot = {"R", "W", "X"}
        /\ r.by[1] = "WriteProtectMemory" =>
              /\ "R" \in r.prot
              /\ "W" \notin r.prot
              /\ ("X" \in r.prot) <=> r.by[2]
        /\ r.by[1] = "UnWriteProtectMemory" =>
              /\ {"R", "W"} \subseteq r.prot
              /\ ("X" \in r.prot) <=> r.by[2]
        /\ {"W", "X"} \subseteq r.prot =>
              r.by \in {<<"AllocateExecutableMemory", TRUE>>,
                        <<"UnWriteProtectMemory", TRUE>>}

\* C7 witness: a mapping that WriteProtectMemory made executable and not
\* writable.
C7_Witness ==
    \E r \in regions :
        r.by = <<"WriteProtectMemory", TRUE>> /\ r.prot = {"R", "X"}

AllocationOps ==
    {"AllocateExecutableMemory", "AllocateMemoryPages", "AllocateAlignedMemory"}

\* C8: an allocation call either returns a non-null pointer or reaches an
\* assertion, and reaches one whenever the underlying allocation failed.
C8_AllocationFailureFatal ==
    last.op \in AllocationOps =>
        /\ fatal # "" \/ last.ret # nullptr
        /\ ~last.osok => fatal # ""

\* C8 witness: mmap failed in AllocateMemoryPages and the assertion was reached.
C8_Witness ==
    /\ last.op = "AllocateMemoryPages"
    /\ ~last.osok
    /\ fatal = "Failed to allocate raw memory"

\* A low request on the hint path that the OS served at or above 2 GiB.
HighLowAllocation ==
    /\ HintPath(build)
    /\ last.op = "AllocateExecutableMemory"
    /\ last.low
    /\ last.osok
    /\ last.ptr >= TwoGiB

\* C9 as claimed: such a call returns the pointer as a successful allocation.
C9_Original ==
    HighLowAllocation => (fatal = "" /\ last.ret = last.ptr)

\* C9 amended: such a call returns the pointer when the file is built with
\* EMU_ARCH_BITS other than 64, and reaches the assertion "Executable memory
\* ended up above 2GB!" when it is built with EMU_ARCH_BITS == 64.
C9_LowHint ==
    HighLowAllocation =>
        IF build.emu_arch_bits_64
        THEN fatal = "Executable memory ended up above 2GB!"
        ELSE fatal = "" /\ last.ret = last.ptr

\* C9 witness: a low request served above 2 GiB and returned to the caller.
C9_Witness ==
    HighLowAllocation /\ fatal = "" /\ last.ret = last.ptr

\* C10 as claimed: the hint of a successful allocation never lies in the
\* range [hint, hint + size) of an earlier successful allocation, and map_hint
\* is advanced past every successful allocation that was made with it.
C10_Original ==
    HintPath(build) =>
        /\ \A i, j \in 1 .. Len(allocs) :
              (i < j /\ allocs[i].hint # nullptr) =>
                  ~(/\ allocs[i].hint <= allocs[j].hint
                    /\ allocs[j].hint < allocs[i].hint + allocs[i].size)
        /\ \A i \in 1 .. Len(allocs) :
              allocs[i].hint # nullptr =>
                  map_hint >= allocs[i].hint + allocs[i].size

\* map_hint is null until the first low request, then page-aligned, and lies
\* past every successful allocation made with low = true, as does the hint of
\* every later allocation.
C10_State ==
    HintPath(build) =>
        /\ map_hint = nullptr =>
              \A i \in 1 .. Len(allocs) : ~allocs[i].low /\ allocs[i].hint = nullptr
        /\ map_hint # nullptr =>
              map_hint % PageSize = 0 /\ map_hint >= HalfGiB
        /\ \A i \in 1 .. Len(allocs) :
              allocs[i].low =>
                  /\ allocs[i].hint # nullptr
                  /\ map_hint >= allocs[i].hint + allocs[i].size
                  /\ \A j \in (i + 1) .. Len(allocs) :
                        allocs[j].hint >= allocs[i].hint + allocs[i].size

\* map_hint never decreases, and a successful allocation made with
\* low = false leaves it as it was.
C10_Step ==
    HintPath(build) =>
        /\ map_hint' >= map_hint
        /\ (/\ Len(allocs') = Len(allocs) + 1
            /\ ~allocs'[Len(allocs')].low) => map_hint' = map_hint

\* C10 amended: on the hint path map_hint is null until the first low = true
\* call, then page-aligned and never decreasing; it is advanced past every
\* successful allocation made with low = true, and left unchanged by one made
\* with low = false; no later hint lies in the range of an earlier successful
\* low = true allocation.
C10_HintAdvance == [](C10_State) /\ [][C10_Step]_vars

\* C10 witness: after a low = true allocation, a low = false allocation was
\* made with the hint, and map_hint still is that hint.
C10_Witness ==
    /\ HintPath(build)
    /\ Len(allocs) >= 2
    /\ allocs[1].low
    /\ ~allocs[2].low
    /\ allocs[2].hint # nullptr
    /\ map_hint = allocs[2].hint

=============================================================================
